---- MODULE Spec2Model ----
(***************************************************************************)
(* Media reference resolution gateway of chatlog                           *)
(* (internal/chatlog/http/route.go): GetMedia, GetMediaData, HandleDatFile *)
(* and HandleVoice, the chat history handler GetChatlog and NoRoute.       *)
(* Strings are sequences of one-character strings, so that trimming,       *)
(* splitting, length classification and path cleaning are computed and not *)
(* assumed.                                                                *)
(***************************************************************************)
EXTENDS Integers, Sequences, FiniteSets, TLC

VARIABLES
    handler,    \* which handler serves the request: "media", "data", "chatlog"
                \* or "noroute"
    param,      \* c.Param("key") / c.Param("path"), as the router hands it over;
                \* for "noroute" the URL path of the request
    category,   \* _type of GetMedia
    info,       \* c.Query("info")
    fs,         \* filesystem: absolute path -> status
    store,      \* s.db.GetMedia: <<category, key>> -> outcome
    pc,         \* position of the handler
    keys,       \* keys of GetMedia
    idx,        \* index of the range loop over keys (1-based)
    acc,        \* _err of GetMedia
    abs,        \* absolutePath of GetMediaData
    resp,       \* responses written to the gin context, in order
    calls,      \* calls made to the collaborators, in order
    origin,     \* of a request that follows a redirect: the path GetMedia probed
    chat        \* the query of GetChatlog and what its collaborators answer

vars == <<handler, param, category, info, fs, store, pc, keys, idx, acc, abs, resp, calls,
          origin, chat>>

----------------------------------------------------------------------------
(* Bounds of the model *)

\* largest number of comma separated tokens in a media key
MaxCands == 3

\* largest number of segments in a data path
MaxSegs == 3

\* largest number of messages the message store returns
MaxMsgs == 2

----------------------------------------------------------------------------
(* Program constants *)

\* length that classifies a candidate as a content hash
HashLen == 32

StatusOK == 200

StatusFound == 302

StatusNotFound == 404

\* status of the redirect http.ServeFile answers for a directory
StatusMovedPermanently == 301

\* status http.ServeFile answers when opening the file is not permitted
StatusForbidden == 403

\* status of errors.InvalidArg
StatusBadRequest == 400

\* status of a store failure that is not a not-found
StatusInternal == 500

\* s.ctx.DataDir: "/d"
DataDir == <<"/", "d">>

\* the prefix of the data endpoint: "/data/"
DataPrefix == <<"/", "d", "a", "t", "a", "/">>

----------------------------------------------------------------------------
(* Strings *)

\* strings.TrimPrefix(s, "/")
TrimSlash(s) == IF s # <<>> /\ s[1] = "/" THEN SubSeq(s, 2, Len(s)) ELSE s

\* strings.Split(s, sep) for a one-character separator: the pieces between
\* consecutive separators, as many as there are separators and one more
Split(s, sep) ==
    LET seps == {i \in 1..Len(s) : s[i] = sep}
        n == Cardinality(seps)
        pos(j) == IF j = 0 THEN 0
                  ELSE IF j = n + 1 THEN Len(s) + 1
                  ELSE CHOOSE q \in seps : Cardinality({r \in seps : r <= q}) = j
    IN  [j \in 1..(n + 1) |-> SubSeq(s, pos(j - 1) + 1, pos(j) - 1)]

\* strings.HasPrefix(s, prefix)
HasPrefix(s, prefix) ==
    Len(s) >= Len(prefix) /\ SubSeq(s, 1, Len(prefix)) = prefix

\* strings.Join(list, sep)
JoinSep(list, sep) ==
    LET F[i \in 0..Len(list)] ==
            IF i = 0 THEN <<>>
            ELSE IF i = 1 THEN list[1]
            ELSE F[i - 1] \o <<sep>> \o list[i]
    IN  F[Len(list)]

\* util.Str2List(key, ","): the non-empty candidates, in order
Str2List(key) == SelectSeq(Split(key, ","), LAMBDA e : e # <<>>)

\* strings.ToLower on the letters the model uses
LowerChar(ch) ==
    CASE ch = "D" -> "d"
      [] ch = "A" -> "a"
      [] ch = "T" -> "t"
      [] ch = "J" -> "j"
      [] ch = "S" -> "s"
      [] ch = "O" -> "o"
      [] ch = "N" -> "n"
      [] OTHER -> ch

ToLower(s) == [i \in 1..Len(s) |-> LowerChar(s[i])]

----------------------------------------------------------------------------
(* path/filepath *)

\* filepath.Clean
Clean(path) ==
    LET rooted == path # <<>> /\ path[1] = "/"
        segs == Split(path, "/")
        F[i \in 0..Len(segs)] ==
            IF i = 0 THEN <<>>
            ELSE LET out == F[i - 1]
                     s == segs[i]
                 IN  IF s = <<>> \/ s = <<".">> THEN out
                     ELSE IF s = <<".", ".">>
                     THEN IF out # <<>> /\ out[Len(out)] # <<".", ".">>
                          THEN SubSeq(out, 1, Len(out) - 1)
                          ELSE IF rooted THEN out ELSE Append(out, s)
                     ELSE Append(out, s)
        body == JoinSep(F[Len(segs)], "/")
    IN  IF rooted THEN <<"/">> \o body
        ELSE IF body = <<>> THEN <<".">> ELSE body

\* filepath.Join(a, b)
Join(a, b) ==
    IF a = <<>> /\ b = <<>> THEN <<>>
    ELSE IF a = <<>> THEN Clean(b)
    ELSE IF b = <<>> THEN Clean(a)
    ELSE Clean(a \o <<"/">> \o b)

\* filepath.Ext
Ext(path) ==
    LET F[i \in 0..Len(path)] ==
            IF i = 0 THEN <<>>
            ELSE IF path[i] = "/" THEN <<>>
            ELSE IF path[i] = "." THEN SubSeq(path, i, Len(path))
            ELSE F[i - 1]
    IN  F[Len(path)]

\* what net/http.Redirect does to a location that starts with "/": the
\* path is cleaned, and a trailing "/" that cleaning removed is put back
CleanLocation(url) ==
    LET cleaned == Clean(url)
    IN  IF url # <<>> /\ url[Len(url)] = "/" /\ cleaned[Len(cleaned)] # "/"
        THEN cleaned \o <<"/">>
        ELSE cleaned

\* path.Base of a URL path that does not end in "/": its last element
Base(url) == LET segs == Split(url, "/") IN segs[Len(segs)]

\* containsDotDot of net/http: some element of the path is ".."
ContainsDotDot(url) ==
    \E i \in 1..Len(Split(url, "/")) : Split(url, "/")[i] = <<".", ".">>

\* p names the data root or something below it
InsideRoot(p) ==
    \/ p = DataDir
    \/ /\ Len(p) > Len(DataDir)
       /\ SubSeq(p, 1, Len(DataDir)) = DataDir
       /\ p[Len(DataDir) + 1] = "/"

----------------------------------------------------------------------------
(* Values *)

\* the categories of the four media routes
Categories == {"image", "video", "file", "voice"}

NoMedia == [Type |-> "", Path |-> <<>>, Data |-> <<>>]

NoErr == [kind |-> "", code |-> 0, arg |-> <<>>]

\* errors.InvalidArg(key)
InvalidArg(key) == [kind |-> "InvalidArg", code |-> StatusBadRequest, arg |-> key]

\* the error of a failed store lookup of key k
StoreErr(outcome, k) ==
    IF outcome = "notfound"
    THEN [kind |-> "NotFound", code |-> StatusNotFound, arg |-> k]
    ELSE [kind |-> "Internal", code |-> StatusInternal, arg |-> k]

\* the record the store holds for key k: a voice record carries its payload
\* inline, any other record the relative path of its file
MediaOf(outcome, k) ==
    IF outcome = "voice"
    THEN [Type |-> "voice", Path |-> <<>>,
          Data |-> IF k[Len(k)] = "a" THEN <<1>> ELSE <<2>>]
    ELSE [Type |-> "image", Path |-> <<"m", k[Len(k)]>>, Data |-> <<>>]

\* a response written to the gin context
Response(kind, status) ==
    [kind |-> kind, status |-> status, ctype |-> "", loc |-> <<>>, path |-> <<>>,
     media |-> NoMedia, bytes |-> <<>>, err |-> NoErr]

\* errors.Err(c, err)
ErrResponse(e) == [Response("error", e.code) EXCEPT !.err = e]

\* c.JSON(http.StatusOK, media)
JSONResponse(media) == [Response("json", StatusOK) EXCEPT !.media = media]

\* c.Redirect(http.StatusFound, location): net/http.Redirect writes the
\* cleaned location into the Location header
RedirectResponse(location) ==
    [Response("redirect", StatusFound) EXCEPT !.loc = CleanLocation(location)]

\* c.Data(http.StatusOK, contentType, data)
DataResponse(contentType, data) ==
    [Response("data", StatusOK) EXCEPT !.ctype = contentType, !.bytes = data]

\* c.JSON(http.StatusNotFound, gin.H{"error": "File not found"})
FileNotFoundResponse == Response("notfound", StatusNotFound)

\* c.JSON(http.StatusNotFound, gin.H{"error": "Not found"})
NoRouteResponse == Response("noroute", StatusNotFound)

\* a call to a collaborator, with what it answered
Call(op, arg, cat, res) == [op |-> op, arg |-> arg, cat |-> cat, res |-> res]

----------------------------------------------------------------------------
(* Environment *)

\* what the filesystem holds at path: "file" (a regular file that can be
\* read), "unreadable" (a regular file that cannot be opened), "dir",
\* "absent" (ENOENT), "denied" (a directory on the way cannot be searched:
\* EACCES), "notdir" (an element on the way is a regular file: ENOTDIR) or
\* "staterr" (the path cannot be resolved for another reason: ENAMETOOLONG,
\* ELOOP)
Status(path) == IF path \in DOMAIN fs THEN fs[path] ELSE "absent"

\* os.Stat(path): "file", "dir", "absent" (the error os.IsNotExist
\* recognises) or "staterr" (any other error)
Stat(path) ==
    CASE Status(path) = "unreadable" -> "file"
      [] Status(path) \in {"denied", "notdir"} -> "staterr"
      [] OTHER -> Status(path)

\* the status net/http gives the error of opening the file at path:
\* http.Dir.Open turns ENOTDIR into not-exist (mapOpenError finds the element
\* that is not a directory), and toHTTPError answers 404 for not-exist, 403
\* for permission, 500 otherwise
OpenErrorStatus(path) ==
    CASE Status(path) \in {"absent", "notdir"} -> StatusNotFound
      [] Status(path) \in {"unreadable", "denied"} -> StatusForbidden
      [] OTHER -> StatusInternal

\* http.ServeFile(w, r, path) for a request with URL path url: a URL path
\* with a ".." element is refused, a file that cannot be opened is an
\* error, a directory is redirected to its name with a "/" or listed, and a
\* regular file is served.  (No URL path of the model ends in /index.html,
\* no directory of the model holds an index.html, and the requests of the
\* model carry no If-Modified-Since, If-None-Match or Range header.)
ServeFile(url, path) ==
    IF ContainsDotDot(url)
    THEN [Response("httperror", StatusBadRequest) EXCEPT !.path = path]
    ELSE IF Status(path) \notin {"file", "dir"}
    THEN [Response("httperror", OpenErrorStatus(path)) EXCEPT !.path = path]
    ELSE IF Status(path) = "dir"
    THEN IF url[Len(url)] # "/"
         THEN [Response("redirect", StatusMovedPermanently)
                   EXCEPT !.path = path, !.loc = Base(url) \o <<"/">>]
         ELSE [Response("listing", StatusOK) EXCEPT !.path = path]
    ELSE [Response("file", StatusOK) EXCEPT !.path = path]

\* c.Request.URL.Path of a request to the route /data/*path
RequestPath == <<"/", "d", "a", "t", "a">> \o param

\* c.File(path): http.ServeFile on the request and path
FileResponse(path) == ServeFile(RequestPath, path)

\* s.db.GetMedia(_type, k)
StoreGet(cat, k) == IF <<cat, k>> \in DOMAIN store THEN store[<<cat, k>>] ELSE "notfound"

\* what a lookup can answer: a voice record, a record of a file, not found,
\* or another failure
StoreOutcomes == {"voice", "image", "notfound", "failure"}

\* silk.Silk2MP3(data): the transcoded payload when the codec accepts data
Silk2MP3(data) == <<255>> \o data

\* the bytes of the file at path
FileBytes(path) == <<Len(path)>>

\* dat2img.Dat2Image(b): the decoded image when the container is recognised
Dat2Image(b) == <<0>> \o b

\* format tags the container decoder can report
DatTags == {"jpg", "png", "gif", "bmp", "mp4"}

----------------------------------------------------------------------------
(* Requests *)

\* a 32 character hash ending in ch
Hash(ch) == [i \in 1..HashLen |-> IF i = HashLen THEN ch ELSE "a"]

\* the tokens media keys are built from: two hashes, a plain relative path,
\* the same path with a "." element, and a path that climbs out of its
\* directory
Tokens == {Hash("a"), Hash("b"), <<"p">>, <<".", "/", "p">>, <<".", ".", "/", "p">>}

\* the tokens of the keys with empty pieces: the empty token and a path
SparseTokens == {<<>>, <<"p">>}

\* c.Param("key") of the routes /<category>/*key: the router hands over the
\* rest of the URL path with its leading "/"
MediaParams ==
    {<<"/">> \o JoinSep(toks, ",") :
        toks \in UNION {[1..n -> Tokens] \cup [1..n -> SparseTokens] : n \in 0..MaxCands}}

\* the segments data paths are built from
Segments ==
    {<<".", ".">>, <<".">>, <<>>, <<"e">>,
     <<"x", ".", "d", "a", "t">>, <<"y", ".", "D", "A", "T">>, <<"z", ".", "j", "p", "g">>}

\* c.Param("path") of the route /data/*path
DataParams ==
    {<<"/">> \o JoinSep(segs, "/") :
        segs \in UNION {[1..n -> Segments] : n \in 0..MaxSegs}}

\* the candidates of a media parameter
CandidatesOf(p) == Str2List(TrimSlash(p))

Range(f) == {f[i] : i \in DOMAIN f}

\* the path parameter of the data route for the location of a redirect:
\* the rest of the location after "/data"
PathParam(loc) == SubSeq(loc, Len(DataPrefix), Len(loc))

\* the location routes to /data/*path
ToData(loc) == HasPrefix(loc, DataPrefix)

\* the files a request for key parameter p can come to ask for: for each
\* path candidate k the path GetMedia probes and, when the location of its
\* redirect routes to the data endpoint, the path the data endpoint resolves
PathsOf(p) ==
    LET ks == {c \in Range(CandidatesOf(p)) : Len(c) # HashLen}
        locs == {CleanLocation(DataPrefix \o k) : k \in ks}
    IN  {Join(DataDir, k) : k \in ks}
        \cup {Join(DataDir, Clean(PathParam(loc))) : loc \in {l \in locs : ToData(l)}}

\* no chatlog query
NoChat == [bindOk |-> TRUE, timeOk |-> TRUE, limit |-> 0, offset |-> 0,
           format |-> <<>>, dbOk |-> TRUE, n |-> 0]

MediaInit ==
    /\ handler = "media"
    /\ param \in MediaParams
    /\ category \in Categories
    /\ info \in {<<>>, <<"1">>}
    /\ fs \in [PathsOf(param) -> {"file", "absent", "notdir", "staterr"}]
    /\ chat = NoChat
    /\ store \in [{<<category, k>> : k \in {c \in Range(CandidatesOf(param)) : Len(c) = HashLen}}
                   -> StoreOutcomes]

DataInit ==
    /\ handler = "data"
    /\ param \in DataParams
    /\ category = ""
    /\ info = <<>>
    /\ fs \in [{Join(DataDir, Clean(param))} ->
                  {"file", "unreadable", "dir", "absent", "denied", "notdir", "staterr"}]
    /\ store = <<>>
    /\ chat = NoChat

\* URL paths that match no route
NoRoutePaths ==
    {<<"/", "p">>, <<"/", "a", "p", "i">>, <<"/", "a", "p", "i", "/", "x">>,
     <<"/", "s", "t", "a", "t", "i", "c", "x">>, <<"/", "s", "t", "a", "t">>}

\* a request no route matches
NoRouteInit ==
    /\ handler = "noroute"
    /\ param \in NoRoutePaths
    /\ category = ""
    /\ info = <<>>
    /\ fs = <<>>
    /\ store = <<>>
    /\ chat = NoChat

\* the values of the format parameter: csv, json, JSON and none
Formats == {<<"c", "s", "v">>, <<"j", "s", "o", "n">>, <<"J", "S", "O", "N">>, <<>>}

\* a request to /api/v1/chatlog: whether the query binds, whether its time
\* range parses, its limit, offset and format, and what s.db.GetMessages
\* answers (an error, or n messages)
ChatlogInit ==
    /\ handler = "chatlog"
    /\ param = <<>>
    /\ category = ""
    /\ info = <<>>
    /\ fs = <<>>
    /\ store = <<>>
    /\ chat \in [bindOk : BOOLEAN, timeOk : BOOLEAN, limit : -1..1, offset : -1..1,
                 format : Formats, dbOk : BOOLEAN, n : 0..MaxMsgs]

Init ==
    /\ MediaInit \/ DataInit \/ ChatlogInit \/ NoRouteInit
    /\ pc = "start"
    /\ keys = <<>>
    /\ idx = 0
    /\ acc = NoErr
    /\ abs = <<>>
    /\ resp = <<>>
    /\ calls = <<>>
    /\ origin = <<>>

----------------------------------------------------------------------------
(* HandleVoice *)

\* a variant that reports a failed transcoding as an error
HandleVoiceStrict(data, ok) ==
    IF ~ok
    THEN ErrResponse([kind |-> "Internal", code |-> StatusInternal, arg |-> <<>>])
    ELSE DataResponse("audio/mp3", Silk2MP3(data))

\* HandleVoice(c, data); ok: whether silk.Silk2MP3 accepts data
HandleVoice(data, ok) ==
    IF ~ok
    THEN DataResponse("audio/silk", data)
    ELSE DataResponse("audio/mp3", Silk2MP3(data))

----------------------------------------------------------------------------
(* GetMedia *)

\* len(k) != 32
IsPathCandidate(k) == Len(k) # HashLen

\* os.IsNotExist(err) of a stat result
IsNotExist(st) == st = "absent"

\* a variant that keeps the first error instead of the last
AccumulateFirst(old, e) == IF old = NoErr THEN e ELSE old

\* _err = err
Accumulate(old, e) == e

\* a variant that looks at the record's type before the info flag
HitResponseTypeFirst(media, infoq, ok) ==
    IF media.Type = "voice" THEN HandleVoice(media.Data, ok)
    ELSE IF infoq # <<>> THEN JSONResponse(media)
    ELSE RedirectResponse(DataPrefix \o media.Path)

\* the branch of GetMedia after a successful store lookup
HitResponse(media, infoq, ok) ==
    IF infoq # <<>> THEN JSONResponse(media)
    ELSE IF media.Type = "voice" THEN HandleVoice(media.Data, ok)
    ELSE RedirectResponse(DataPrefix \o media.Path)

\* the collaborators the branch after a successful store lookup calls
HitCalls(media, infoq, ok) ==
    IF infoq = <<>> /\ media.Type = "voice"
    THEN <<Call("Silk2MP3", media.Data, "", IF ok THEN "ok" ELSE "fail")>>
    ELSE <<>>

\* what GetMedia writes once the loop is over
ExhaustedResponses(e) == IF e # NoErr THEN <<ErrResponse(e)>> ELSE <<>>

\* a variant that checks the key and not the list split from it
NoKeysEmptyOnly(key, list) == key = <<>>

\* key == "" and len(keys) == 0: the key names no candidate
NoKeys(key, list) == key = <<>> \/ Len(list) = 0

\* a variant that redirects to the path that was probed
ProbeLocationAbsolute(k) == DataPrefix \o Join(DataDir, k)

\* "/data/"+k, the location of the redirect for a path candidate
ProbeLocation(k) == DataPrefix \o k

\* GetMedia up to the loop: trim, split, reject a key without candidates
MediaStart ==
    /\ handler = "media" /\ pc = "start"
    /\ LET key == TrimSlash(param)
           list == Str2List(key)
       IN  IF NoKeys(key, list)
           THEN /\ resp' = Append(resp, ErrResponse(InvalidArg(key)))
                /\ pc' = "done"
                /\ UNCHANGED <<keys, idx>>
           ELSE /\ keys' = list
                /\ idx' = 1
                /\ pc' = "loop"
                /\ UNCHANGED resp
    /\ UNCHANGED <<origin, chat, handler, param, category, info, fs, store, acc, abs, calls>>

\* one iteration of the loop over keys, for a path candidate
MediaProbe ==
    /\ handler = "media" /\ pc = "loop" /\ idx <= Len(keys)
    /\ IsPathCandidate(keys[idx])
    /\ LET k == keys[idx]
           absolutePath == Join(DataDir, k)
       IN  /\ calls' = Append(calls, Call("Stat", absolutePath, "", Stat(absolutePath)))
           /\ IF IsNotExist(Stat(absolutePath))
              THEN /\ idx' = idx + 1
                   /\ UNCHANGED <<pc, resp>>
              ELSE /\ resp' = Append(resp, RedirectResponse(ProbeLocation(k)))
                   /\ pc' = "done"
                   /\ UNCHANGED idx
    /\ UNCHANGED <<origin, chat, handler, param, category, info, fs, store, keys, acc, abs>>

\* one iteration of the loop over keys, for a hash candidate
MediaLookup ==
    /\ handler = "media" /\ pc = "loop" /\ idx <= Len(keys)
    /\ ~IsPathCandidate(keys[idx])
    /\ LET k == keys[idx]
           outcome == StoreGet(category, k)
           media == MediaOf(outcome, k)
       IN  IF outcome \notin {"voice", "image"}
           THEN /\ calls' = Append(calls, Call("GetMedia", k, category, outcome))
                /\ acc' = Accumulate(acc, StoreErr(outcome, k))
                /\ idx' = idx + 1
                /\ UNCHANGED <<pc, resp>>
           ELSE \E ok \in BOOLEAN :
                /\ calls' = Append(calls, Call("GetMedia", k, category, outcome))
                                \o HitCalls(media, info, ok)
                /\ resp' = Append(resp, HitResponse(media, info, ok))
                /\ pc' = "done"
                /\ UNCHANGED <<idx, acc>>
    /\ UNCHANGED <<origin, chat, handler, param, category, info, fs, store, keys, abs>>

\* the end of GetMedia when no candidate ended the request
MediaExhausted ==
    /\ handler = "media" /\ pc = "loop" /\ idx > Len(keys)
    /\ resp' = resp \o ExhaustedResponses(acc)
    /\ pc' = "done"
    /\ UNCHANGED <<origin, chat, handler, param, category, info, fs, store, keys, idx, acc, abs, calls>>

----------------------------------------------------------------------------
(* GetMediaData and HandleDatFile *)

\* a variant that joins the parameter as it came
RelativePathRaw(p) == p

\* relativePath := filepath.Clean(c.Param("path"))
RelativePath(p) == Clean(p)

\* ext == ".dat", ext being the lower-cased extension
IsDat(path) == ToLower(Ext(path)) = <<".", "d", "a", "t">>

\* the content type HandleDatFile gives a decoded image
DatContentType(tag) ==
    CASE tag = "jpg" -> "image/jpeg"
      [] tag = "png" -> "image/png"
      [] tag = "gif" -> "image/gif"
      [] tag = "bmp" -> "image/bmp"
      [] OTHER -> "image/jpg"

\* os.ReadFile(path) succeeds: the path holds a regular file that can be
\* opened, which os.Stat does not tell
Readable(path) == Status(path) = "file"

\* HandleDatFile(c, path) once the file was read; ok, tag: the result of
\* Dat2Image.  An unrecognised container is handed to c.File.
DatResponse(path, ok, tag) ==
    IF ~ok THEN FileResponse(path)
    ELSE DataResponse(DatContentType(tag), Dat2Image(FileBytes(path)))

\* GetMediaData up to the existence check
DataStart ==
    /\ handler = "data" /\ pc = "start"
    /\ LET absolutePath == Join(DataDir, RelativePath(param))
       IN  /\ abs' = absolutePath
           /\ calls' = Append(calls, Call("Stat", absolutePath, "", Stat(absolutePath)))
           /\ IF IsNotExist(Stat(absolutePath))
              THEN /\ resp' = Append(resp, FileNotFoundResponse)
                   /\ pc' = "done"
              ELSE /\ pc' = "serve"
                   /\ UNCHANGED resp
    /\ UNCHANGED <<origin, chat, handler, param, category, info, fs, store, keys, idx, acc>>

\* the default branch of GetMediaData: the file is served as it is
DataFile ==
    /\ handler = "data" /\ pc = "serve"
    /\ ~IsDat(abs)
    /\ resp' = Append(resp, FileResponse(abs))
    /\ pc' = "done"
    /\ UNCHANGED <<origin, chat, handler, param, category, info, fs, store, keys, idx, acc, abs, calls>>

\* HandleDatFile
DataDat ==
    /\ handler = "data" /\ pc = "serve"
    /\ IsDat(abs)
    /\ IF ~Readable(abs)
       THEN /\ calls' = Append(calls, Call("ReadFile", abs, "", "fail"))
            /\ resp' = Append(resp, ErrResponse([kind |-> "Internal", code |-> StatusInternal, arg |-> abs]))
       ELSE \E res \in DatTags \cup {"fail"} :
            /\ calls' = calls \o <<Call("ReadFile", abs, "", "ok"), Call("Dat2Image", abs, "", res)>>
            /\ resp' = Append(resp, DatResponse(abs, res # "fail", res))
    /\ pc' = "done"
    /\ UNCHANGED <<origin, chat, handler, param, category, info, fs, store, keys, idx, acc, abs>>

----------------------------------------------------------------------------
(* GetChatlog *)

\* the error of c.BindQuery
BindErr == [kind |-> "Bind", code |-> StatusBadRequest, arg |-> <<>>]

\* the error of s.db.GetMessages
MessagesErr == [kind |-> "Internal", code |-> StatusInternal, arg |-> <<>>]

\* the messages s.db.GetMessages returns
Messages(n) == [i \in 1..n |-> i]

\* if q.Limit < 0 { q.Limit = 0 }, and the same for q.Offset
Clamp(v) == IF v < 0 THEN 0 ELSE v

\* c.JSON(http.StatusOK, messages)
MessagesJSON(msgs) == [Response("json", StatusOK) EXCEPT !.bytes = msgs]

\* the plain text body: the headers, then one line per message
MessagesText(msgs) ==
    [Response("text", StatusOK) EXCEPT !.ctype = "text/plain; charset=utf-8", !.bytes = msgs]

\* the switch on the lower-cased format: what GetChatlog writes for messages
FormatResponses(format, msgs) ==
    IF ToLower(format) = <<"c", "s", "v">> THEN <<>>
    ELSE IF ToLower(format) = <<"j", "s", "o", "n">> THEN <<MessagesJSON(msgs)>>
    ELSE <<MessagesText(msgs)>>

\* c.BindQuery(&q): on failure the error is written and the handler returns
ChatlogBind ==
    /\ handler = "chatlog" /\ pc = "start"
    /\ IF ~chat.bindOk
       THEN /\ resp' = Append(resp, ErrResponse(BindErr))
            /\ pc' = "done"
       ELSE /\ pc' = "time"
            /\ UNCHANGED resp
    /\ UNCHANGED <<origin, chat, handler, param, category, info, fs, store, keys, idx, acc, abs, calls>>

\* util.TimeRangeOf(q.Time): on failure the error is written, and the
\* handler goes on; then limit and offset are clamped
ChatlogTime ==
    /\ handler = "chatlog" /\ pc = "time"
    /\ resp' = IF ~chat.timeOk
               THEN Append(resp, ErrResponse(InvalidArg(<<"t", "i", "m", "e">>)))
               ELSE resp
    /\ chat' = [chat EXCEPT !.limit = Clamp(@), !.offset = Clamp(@)]
    /\ pc' = "query"
    /\ UNCHANGED <<origin, handler, param, category, info, fs, store, keys, idx, acc, abs, calls>>

\* s.db.GetMessages(...): on failure the error is written and the handler
\* returns
ChatlogQuery ==
    /\ handler = "chatlog" /\ pc = "query"
    /\ calls' = Append(calls, Call("GetMessages", <<>>, "", IF chat.dbOk THEN "ok" ELSE "fail"))
    /\ IF ~chat.dbOk
       THEN /\ resp' = Append(resp, ErrResponse(MessagesErr))
            /\ pc' = "done"
       ELSE /\ pc' = "write"
            /\ UNCHANGED resp
    /\ UNCHANGED <<origin, chat, handler, param, category, info, fs, store, keys, idx, acc, abs>>

\* the switch on the format
ChatlogWrite ==
    /\ handler = "chatlog" /\ pc = "write"
    /\ resp' = resp \o FormatResponses(chat.format, Messages(chat.n))
    /\ pc' = "done"
    /\ UNCHANGED <<origin, chat, handler, param, category, info, fs, store, keys, idx, acc, abs, calls>>

----------------------------------------------------------------------------
(* A client that follows a redirect *)

\* Service.NoRoute: a URL path under /api or /static is answered 404, any
\* other is redirected to "/"
NoRoute ==
    /\ handler = "noroute" /\ pc = "start"
    /\ resp' = IF HasPrefix(param, <<"/", "a", "p", "i">>)
                  \/ HasPrefix(param, <<"/", "s", "t", "a", "t", "i", "c">>)
               THEN Append(resp, NoRouteResponse)
               ELSE Append(resp, RedirectResponse(<<"/">>))
    /\ pc' = "done"
    /\ UNCHANGED <<origin, chat, handler, param, category, info, fs, store, keys, idx, acc, abs, calls>>

\* the client requests the Location of the 302 GetMedia answered, on the
\* same filesystem and store: a request to the data route when the location
\* lies under /data/, and otherwise (the locations of the model then match
\* no route) a request for Service.NoRoute
Follow ==
    /\ handler = "media" /\ pc = "done"
    /\ Len(resp) = 1 /\ resp[1].kind = "redirect"
    /\ handler' = IF ToData(resp[1].loc) THEN "data" ELSE "noroute"
    /\ param' = IF ToData(resp[1].loc) THEN PathParam(resp[1].loc) ELSE resp[1].loc
    /\ origin' = IF calls # <<>> /\ calls[Len(calls)].op = "Stat"
                 THEN calls[Len(calls)].arg
                 ELSE <<>>
    /\ category' = ""
    /\ info' = <<>>
    /\ pc' = "start"
    /\ keys' = <<>>
    /\ idx' = 0
    /\ acc' = NoErr
    /\ abs' = <<>>
    /\ resp' = <<>>
    /\ calls' = <<>>
    /\ UNCHANGED <<fs, store, chat>>

----------------------------------------------------------------------------

Next ==
    \/ MediaStart
    \/ MediaProbe
    \/ MediaLookup
    \/ MediaExhausted
    \/ DataStart
    \/ DataFile
    \/ DataDat
    \/ NoRoute
    \/ Follow
    \/ ChatlogBind
    \/ ChatlogTime
    \/ ChatlogQuery
    \/ ChatlogWrite

Spec == Init /\ [][Next]_vars

----------------------------------------------------------------------------
(* Vocabulary of the properties: the request and its environment, read off  *)
(* the parameter, the filesystem and the store, not off the handler.        *)

\* the candidates of the key of the request
Cands == CandidatesOf(param)

MediaDone == handler = "media" /\ pc = "done"

DataDone == handler = "data" /\ pc = "done"

\* k is a path candidate / a hash candidate
PathCand(k) == Len(k) # HashLen

HashCand(k) == Len(k) = HashLen

\* the file of path candidate k exists under the data root / the probe of k
\* reports that it does not exist
Exists(k) ==
    /\ PathCand(k)
    /\ InsideRoot(Join(DataDir, k))
    /\ Stat(Join(DataDir, k)) = "file"

Absent(k) == PathCand(k) /\ Stat(Join(DataDir, k)) = "absent"

\* the store finds hash candidate k / the lookup of k fails
Found(k) == HashCand(k) /\ StoreGet(category, k) \in {"voice", "image"}

Missed(k) == HashCand(k) /\ StoreGet(category, k) \in {"notfound", "failure"}

\* k is viable: an existing path or a store hit
Viable(k) == Exists(k) \/ Found(k)

\* the record of a store hit
RecordOf(k) == MediaOf(StoreGet(category, k), k)

\* r is the success response for the store hit k
AnswersHit(r, k) ==
    IF info # <<>>
    THEN r = JSONResponse(RecordOf(k))
    ELSE IF RecordOf(k).Type = "voice"
    THEN /\ r.kind = "data" /\ r.status = StatusOK
         /\ \/ r.ctype = "audio/mp3" /\ r.bytes = Silk2MP3(RecordOf(k).Data)
            \/ r.ctype = "audio/silk" /\ r.bytes = RecordOf(k).Data
    ELSE r = RedirectResponse(DataPrefix \o RecordOf(k).Path)

\* r is the success response for candidate k
Answers(r, k) ==
    IF PathCand(k) THEN r = RedirectResponse(DataPrefix \o k) ELSE AnswersHit(r, k)

\* the responses that carry the accumulated error of a store lookup
StoreErrors == {i \in 1..Len(resp) : resp[i].kind = "error" /\ resp[i].err.kind # "InvalidArg"}

\* the loop runs through every candidate: every probe reports not-exist and
\* every lookup fails
AllSkipped == \A i \in 1..Len(Cands) : Absent(Cands[i]) \/ Missed(Cands[i])

\* the positions of the hash candidates whose lookup fails
MissedAt == {i \in 1..Len(Cands) : Missed(Cands[i])}

Max(S) == CHOOSE x \in S : \A y \in S : y <= x

Min(S) == CHOOSE x \in S : \A y \in S : x <= y

----------------------------------------------------------------------------
(* C1 *)

\* C1: first success wins.  When the key holds a hash candidate the store
\* finds, the request ends in one success response (200 or 302), never an
\* error, and that response is the one of the first viable candidate in key
\* order (an existing path or a store hit).
C1_FirstSuccessWins ==
    (MediaDone /\ \E i \in 1..Len(Cands) : Found(Cands[i])) =>
        LET first == Min({i \in 1..Len(Cands) : Viable(Cands[i])})
        IN  /\ Len(resp) = 1
            /\ resp[1].kind # "error"
            /\ resp[1].status \in {StatusOK, StatusFound}
            /\ Answers(resp[1], Cands[first])

----------------------------------------------------------------------------
(* C2 *)

\* C2: a key of path candidates only, none of which exists, is answered 404
\* with an error body, and the accumulator holds no error.
C2_NotFoundForMissingPaths ==
    (/\ MediaDone
     /\ Len(Cands) > 0
     /\ \A i \in 1..Len(Cands) : Absent(Cands[i])) =>
        /\ Len(resp) = 1
        /\ resp[1].status = StatusNotFound
        /\ acc = NoErr

----------------------------------------------------------------------------
(* C3 *)

\* C3: when the loop has run through every candidate (every path probe
\* reported not-exist, every lookup failed) and at least one lookup failed,
\* the one response is the error of the last failing hash candidate in key
\* order; in every other case no accumulated lookup error is written.
C3_LastErrorOnExhaustion ==
    MediaDone =>
        IF AllSkipped /\ MissedAt # {}
        THEN LET k == Cands[Max(MissedAt)]
             IN  /\ resp = <<ErrResponse(StoreErr(StoreGet(category, k), k))>>
                 /\ acc = StoreErr(StoreGet(category, k), k)
        ELSE StoreErrors = {}

\* C3 witness: three candidates, a failing hash, a missing path, another
\* failing hash; the response carries the error of the third
C3_Witness ==
    /\ MediaDone
    /\ Len(Cands) = 3
    /\ Missed(Cands[1]) /\ Absent(Cands[2]) /\ Missed(Cands[3])
    /\ Cands[1] # Cands[3]
    /\ Len(resp) = 1 /\ resp[1].kind = "error" /\ resp[1].err.arg = Cands[3]

----------------------------------------------------------------------------
(* C4 *)

\* the key, after one leading "/" is trimmed, holds nothing but commas
NoCandidate == \A i \in 1..Len(TrimSlash(param)) : TrimSlash(param)[i] = ","

\* C4: a key that is empty or holds no non-empty candidate is answered with
\* InvalidArgument (400) and neither the filesystem nor the store is asked;
\* a key with a non-empty candidate is never answered with InvalidArgument.
C4_InvalidArgument ==
    MediaDone =>
        IF NoCandidate
        THEN /\ resp = <<ErrResponse(InvalidArg(TrimSlash(param)))>>
             /\ resp[1].status = StatusBadRequest
             /\ calls = <<>>
        ELSE \A i \in 1..Len(resp) : resp[i].err.kind # "InvalidArg"

\* C4 witness: the key ",," is rejected
C4_Witness ==
    /\ MediaDone
    /\ param = <<"/", ",", ",">>
    /\ Len(resp) = 1 /\ resp[1].status = StatusBadRequest

----------------------------------------------------------------------------
(* C5 *)

\* the transcoder was called
Transcoded == \E i \in 1..Len(calls) : calls[i].op = "Silk2MP3"

\* the request got a success response
Succeeded == Len(resp) = 1 /\ resp[1].status \in {StatusOK, StatusFound}

\* C5 as stated: with the info flag set, whatever the key, a request that
\* succeeds is answered 200 with the JSON of the record; no 302 is issued and
\* the transcoder is not called.
C5_InfoAlwaysMetadata ==
    (MediaDone /\ info # <<>> /\ Succeeded) =>
        /\ resp[1].kind = "json" /\ resp[1].status = StatusOK
        /\ ~Transcoded

\* C5 amended: with the info flag set, a request that a store hit ends is
\* answered 200 with the JSON of the record of that hit, and on no request
\* with the flag set is the transcoder called or a redirect to a record's
\* path issued; a request that a path candidate ends is answered 302 to the
\* cleaned location of that candidate, flag or no flag.
C5_InfoMetadataOnHit ==
    (MediaDone /\ info # <<>>) =>
        /\ ~Transcoded
        /\ \A i \in 1..Len(Cands) :
              (Found(Cands[i]) /\ \A j \in 1..(i - 1) : Absent(Cands[j]) \/ Missed(Cands[j]))
                  => resp = <<JSONResponse(RecordOf(Cands[i]))>>
        /\ \A i \in 1..Len(resp) :
              resp[i].kind = "redirect" =>
                  \E j \in 1..Len(Cands) :
                      /\ PathCand(Cands[j])
                      /\ resp[i].loc = CleanLocation(DataPrefix \o Cands[j])

\* C5 witness: the flag is set, the hit is a voice record of category voice,
\* and the answer is its JSON
C5_Witness ==
    /\ MediaDone /\ info # <<>>
    /\ category = "voice"
    /\ Len(Cands) = 2 /\ Missed(Cands[1]) /\ Found(Cands[2])
    /\ RecordOf(Cands[2]).Type = "voice"
    /\ resp = <<JSONResponse(RecordOf(Cands[2]))>>

----------------------------------------------------------------------------
(* C6 *)

\* C6: on the data endpoint every path that is stat-ed, read, decoded or
\* served lies inside the data root, whatever "." and ".." segments the
\* request path holds.
C6_DataInsideRoot ==
    handler = "data" =>
        /\ abs # <<>> => InsideRoot(abs)
        /\ \A i \in 1..Len(calls) : InsideRoot(calls[i].arg)
        /\ \A i \in 1..Len(resp) : resp[i].path # <<>> => InsideRoot(resp[i].path)
        /\ pc # "start" => Len(calls) >= 1 /\ calls[1].op = "Stat"

\* C6 witness: for the request path /../../x.dat the file <root>/x.dat is
\* stat-ed, read, decoded and served
C6_Witness ==
    /\ DataDone
    /\ param = <<"/", ".", ".", "/", ".", ".", "/", "x", ".", "d", "a", "t">>
    /\ Len(calls) = 3
    /\ \A i \in 1..3 : calls[i].arg = DataDir \o <<"/", "x", ".", "d", "a", "t">>
    /\ Len(resp) = 1 /\ resp[1].kind = "data"

----------------------------------------------------------------------------
(* C7 *)

\* C7: whenever the transcoder is called the request is answered 200: with
\* content type audio/mp3 and the transcoder's output when it succeeds, with
\* content type audio/silk and the payload of the record, byte for byte,
\* when it fails.
C7_VoiceNeverFails ==
    \A i \in 1..Len(calls) :
        calls[i].op = "Silk2MP3" =>
            /\ calls[i].arg = RecordOf(keys[idx]).Data
            /\ Len(resp) = 1
            /\ resp[1].kind = "data" /\ resp[1].status = StatusOK
            /\ IF calls[i].res = "ok"
               THEN resp[1].ctype = "audio/mp3" /\ resp[1].bytes = Silk2MP3(calls[i].arg)
               ELSE resp[1].ctype = "audio/silk" /\ resp[1].bytes = calls[i].arg

\* C7 witness: the transcoder rejects the payload and the payload is served
C7_Witness ==
    /\ MediaDone
    /\ \E i \in 1..Len(calls) : calls[i].op = "Silk2MP3" /\ calls[i].res = "fail"
    /\ resp[1].ctype = "audio/silk" /\ resp[1].bytes = <<2>>

----------------------------------------------------------------------------
(* C8 *)

\* p ends in ".dat", in any case of the letters
EndsInDat(p) ==
    /\ Len(p) >= 4
    /\ ToLower(SubSeq(p, Len(p) - 3, Len(p))) = <<".", "d", "a", "t">>

\* the calls of the container decoder
Decodes == {i \in 1..Len(calls) : calls[i].op = "Dat2Image"}

\* the content type the specification gives a decoded image
ImageType(tag) ==
    IF tag = "jpg" THEN "image/jpeg"
    ELSE IF tag = "png" THEN "image/png"
    ELSE IF tag = "gif" THEN "image/gif"
    ELSE IF tag = "bmp" THEN "image/bmp"
    ELSE "image/jpg"

\* the reads of the file
Reads == {i \in 1..Len(calls) : calls[i].op = "ReadFile"}

\* C8: an existing file whose extension is .dat, in any case, is read, and
\* once read given to the decoder; when the decoder does not recognise it
\* the raw file is served with status 200 and no error; when it does, the
\* decoded bytes are served with the content type of the tag; a file of
\* another extension is never given to the decoder.
C8_DatBestEffort ==
    DataDone =>
        /\ (Stat(abs) = "file" /\ EndsInDat(abs)) =>
              /\ Reads # {}
              /\ \A i \in Reads : calls[i].res = "ok" => Decodes # {}
        /\ ~EndsInDat(abs) => Decodes = {}
        /\ \A i \in Decodes :
              /\ calls[i].arg = abs
              /\ Len(resp) = 1
              /\ IF calls[i].res = "fail"
                 THEN /\ resp[1].kind = "file" /\ resp[1].status = StatusOK
                      /\ resp[1].path = abs
                 ELSE /\ resp[1].kind = "data" /\ resp[1].status = StatusOK
                      /\ resp[1].bytes = Dat2Image(FileBytes(abs))
                      /\ resp[1].ctype = ImageType(calls[i].res)

----------------------------------------------------------------------------
(* C9 *)

\* C9: every GetMedia request ends with exactly one response written, one of
\* metadata (200 JSON), inline bytes (200), redirect (302), not found (404)
\* or an error.
C9_ExactlyOneResponse ==
    MediaDone =>
        /\ Len(resp) = 1
        /\ resp[1].kind \in {"json", "data", "redirect", "notfound", "error"}

----------------------------------------------------------------------------
(* C10 *)

\* the loop comes to candidate i and its file exists: every candidate before
\* it was skipped (its probe reported not-exist or its lookup failed)
ComesToExisting(i) ==
    Exists(Cands[i]) /\ \A j \in 1..(i - 1) : Absent(Cands[j]) \/ Missed(Cands[j])

\* C10 as stated: when the loop comes to a path candidate that exists, the
\* answer is 302 with Location /data/<candidate>, also when a later hash
\* candidate is in the store and an earlier lookup recorded an error; the
\* probe of that candidate is the last call made, and the store is asked for
\* no later one.
C10_PathProbeLiteralLocation ==
    MediaDone =>
        \A i \in 1..Len(Cands) :
            ComesToExisting(i) =>
                /\ Len(resp) = 1
                /\ resp[1].kind = "redirect" /\ resp[1].status = StatusFound
                /\ resp[1].loc = DataPrefix \o Cands[i]
                /\ Len(calls) = i

\* C10 amended: when the loop comes to a path candidate that exists under
\* the data root, the answer is 302 with the Location /data/<candidate> in
\* cleaned form: /data/<candidate> itself for a candidate that is clean and
\* holds no ".." element, and for every candidate without a ".." element a
\* location of the data endpoint that resolves to the file that was probed;
\* this also when a later hash candidate is in the store and an earlier
\* lookup recorded an error; the probe of that candidate is the last call
\* made, and the store is asked for no later one.
C10_PathProbePrecedence ==
    MediaDone =>
        \A i \in 1..Len(Cands) :
            ComesToExisting(i) =>
                /\ Len(resp) = 1
                /\ resp[1].kind = "redirect" /\ resp[1].status = StatusFound
                /\ resp[1].loc = CleanLocation(DataPrefix \o Cands[i])
                /\ (Clean(Cands[i]) = Cands[i] /\ ~ContainsDotDot(Cands[i]))
                      => resp[1].loc = DataPrefix \o Cands[i]
                /\ (~ContainsDotDot(Cands[i]) /\ Clean(Cands[i]) # <<".">>) =>
                      /\ ToData(resp[1].loc)
                      /\ Join(DataDir, Clean(PathParam(resp[1].loc)))
                            = Join(DataDir, Cands[i])
                /\ Len(calls) = i
                /\ calls[i].op = "Stat" /\ calls[i].arg = Join(DataDir, Cands[i])
                /\ \A j \in 1..(i - 1) :
                      calls[j].arg \in {Cands[j], Join(DataDir, Cands[j])}

\* C10 witness: a failing hash, the existing path ./p, a hash the store
\* holds; the error was recorded and the answer is the redirect for the
\* path, with the cleaned Location /data/p
C10_Witness ==
    /\ MediaDone
    /\ Len(Cands) = 3
    /\ Missed(Cands[1]) /\ Exists(Cands[2]) /\ Found(Cands[3])
    /\ Cands[2] = <<".", "/", "p">>
    /\ acc # NoErr
    /\ Len(resp) = 1 /\ resp[1].kind = "redirect"
    /\ resp[1].loc = <<"/", "d", "a", "t", "a", "/", "p">>
    /\ Len(calls) = 2

----------------------------------------------------------------------------
(* C11 *)

\* the stat answers that establish that the file is there
Established == {"file", "dir"}

\* C11: GetMedia redirects for a path candidate only if the probe established
\* that the file exists, whatever made the probe fail, and GetMediaData
\* serves a file only if its existence check succeeded.
C11_ServedOnlyIfExists ==
    /\ (/\ MediaDone
        /\ calls # <<>> /\ calls[Len(calls)].op = "Stat"
        /\ \E i \in 1..Len(resp) : resp[i].kind = "redirect")
          => calls[Len(calls)].res \in Established
    /\ (/\ handler = "data"
        /\ \E i \in 1..Len(resp) : resp[i].kind \in {"file", "data", "listing"})
          => calls[1].res \in Established

----------------------------------------------------------------------------
(* C12 *)

\* C12: when the redirect GetMedia answered for a path candidate is
\* followed, the request is one to the data endpoint, the path GetMedia
\* probed lies inside the data root, it is the path the data endpoint stats
\* and serves, and the data endpoint does not answer 404.
C12_SameFileAfterRedirect ==
    origin # <<>> =>
        /\ handler = "data"
        /\ InsideRoot(origin)
        /\ pc # "start" => abs = origin /\ calls[1].arg = origin
        /\ \A i \in 1..Len(resp) : resp[i].kind # "notfound"

----------------------------------------------------------------------------
(* C13 *)

\* C13: an error response ends GetChatlog.  Once an error is written (the
\* query does not bind, the time range does not parse, GetMessages fails) it
\* is the only response, the handler has returned, and the message store is
\* not asked after an error that came before the query.
C13_ErrorEndsChatlog ==
    handler = "chatlog" =>
        \A i \in 1..Len(resp) :
            resp[i].kind = "error" =>
                /\ Len(resp) = 1
                /\ pc = "done"
                /\ resp[i].err.kind # "Internal" => calls = <<>>

====
